---- MODULE Spec2Model ----
(***************************************************************************)
(* ph::ffmpeg::MovieGl (src/src/CinderFFmpeg.cpp): the per-tick frame pump *)
(* update(), the transport operations and the GPU resources they own.      *)
(*                                                                         *)
(* Time is counted in integer units.  The decoder, the audio renderer and  *)
(* the cinder Timer are collaborators whose code is not in this file: the  *)
(* decoder's answers (a pull succeeds or fails, the video clock it reports *)
(* afterwards, the geometry of a frame) are nondeterministic inputs.       *)
(*                                                                         *)
(* update() is followed step by step: pc is "idle" between two calls,      *)
(* "audio" before each test of the audio drain's loop condition and        *)
(* "video" before each decodeVideoFrame.  No other operation runs while    *)
(* pc is not "idle": the player is driven from one thread.                 *)
(***************************************************************************)
EXTENDS Integers, Sequences, FiniteSets, TLC

\* ---- bounds of the model
MaxTime == 2        \* clock values, timestamps and seek targets are 0..MaxTime
MaxBurst == 2       \* frames a bounded decoder delivers to one drain
FrameDur == 2       \* 1 / getFramesPerSecond(), in time units

\* ---- program constant: the cap of the video drain loop
MaxDrain == 100

Times == 0..MaxTime
NoPts == -1

\* width, height and the three line strides a decoded frame reports
Geometries ==
  { [w |-> 2, h |-> 3, y |-> 3, u |-> 1, v |-> 2],
    [w |-> 2, h |-> 3, y |-> 4, u |-> 2, v |-> 3],
    [w |-> 4, h |-> 2, y |-> 4, u |-> 2, v |-> 2] }
Images == {1, 2}

\* a GPU image (plane texture, offscreen target or its colour texture)
Absent == [present |-> FALSE, w |-> 0, h |-> 0, img |-> 0]
Tex(w, h, img) == [present |-> TRUE, w |-> w, h |-> h, img |-> img]

\* AudioFrame audioFrame; before any pull, and the frames a pull fills in
NoAudioFrame == 0
AudioFrames == {1, 2}

\* VideoFrame videoFrame; (default constructed)
NoFrame == [w |-> 0, h |-> 0, y |-> 0, u |-> 0, v |-> 0, img |-> 0]
Frames == { [w |-> g.w, h |-> g.h, y |-> g.y, u |-> g.u, v |-> g.v, img |-> i] :
            g \in Geometries, i \in Images }

VARIABLES
  \* MovieGl members (mShader: whether the program exists), and the
  \* constructor's playAudio
  mWidth, mHeight, mYPlane, mUPlane, mVPlane, mFbo, mTexture, mAudioRenderer,
  mUpdateTimer, mShader, playAudio,
  \* the MovieDecoder behind mMovieDecoder, the AudioRenderer behind
  \* mAudioRenderer and the frames queueFrame handed it in the running tick
  dec, aud, aQueued,
  \* update(): position, locals, and what the tick that has just returned did
  pc, currentPts, audioFrame, hasVideo, count, currentVideoClock, videoFrame,
  tick,
  \* history of the answers of the decoder in the running (or last) tick:
  \* video pulls and audio pulls that succeeded, the last answer, the frame
  \* of the last successful video pull
  pulls, aPulls, lastPull, delivered,
  \* history of the calls: a seek whose output is still pending, and whether
  \* the last step was a call made on an uninitialized decoder
  seekPending, uninitCall,
  \* history of the clock: the clock value of the previous tick, what was
  \* called since, the value a loop re-base makes the next tick expect, and
  \* whether no seek, pause or wrap-around has happened so far
  prevPts, disturbed, expect, clean,
  \* history of the transport: the operation of the last step, the timer
  \* value at the last pause() not yet followed by resume(), play() or
  \* seekToTime(), and the video clock at a resume() no tick has followed
  lastOp, haltedAt, resumedAt

gpuVars == <<mWidth, mHeight, mYPlane, mUPlane, mVPlane, mFbo, mTexture>>
progVars == <<gpuVars, mAudioRenderer, mUpdateTimer, mShader, playAudio, dec, aud>>
localVars == <<currentPts, audioFrame, hasVideo, count, currentVideoClock,
              videoFrame>>
tickVars == <<pc, localVars, tick, aQueued>>
pullHist == <<pulls, aPulls, lastPull, delivered>>
callHist == <<seekPending, uninitCall>>
clockHist == <<prevPts, disturbed, expect, clean>>
transHist == <<lastOp, haltedAt, resumedAt>>
vars == <<progVars, tickVars, pullHist, callHist, clockHist, transHist>>

NoTick == [done |-> FALSE, accepted |-> FALSE, exit |-> "none",
           realloc |-> FALSE, pts |-> NoPts]

Min(a, b) == IF a < b THEN a ELSE b

\* ---------------------------------------------------------------------
\* cinder Timer: getSeconds() is secs; it grows with the wall clock while
\* the timer runs (Advance) and is frozen while it is stopped.
TimerNew == [running |-> FALSE, secs |-> 0]
TimerGetSeconds(t) == t.secs
TimerStart(t, offsetSeconds) == [running |-> TRUE, secs |-> offsetSeconds]
TimerStop(t) == [t EXCEPT !.running = FALSE]

\* ---------------------------------------------------------------------
\* MovieDecoder: transport commands.  videoClock is what getVideoClock()
\* answers; it moves when a frame is pulled and when the decoder seeks.
DecoderStart(d) == [d EXCEPT !.state = "playing"]
DecoderStop(d) == [d EXCEPT !.state = "stopped"]
DecoderPause(d) == [d EXCEPT !.state = "paused"]
DecoderResume(d) == [d EXCEPT !.state = "playing"]
DecoderSeekToTime(d, seconds) == [d EXCEPT !.videoClock = seconds]
DecoderLoop(d, loop) == [d EXCEPT !.loop = loop]

\* ---------------------------------------------------------------------
\* AudioRenderer: consumed position (getCurrentPts) and transport state.
\* hasBufferSpace() is an answer of the renderer, an input of the tick.
AudioNew == [state |-> "stopped", pts |-> 0]
AudioStop(a) == [a EXCEPT !.state = "stopped"]
AudioPause(a) == [a EXCEPT !.state = "paused"]
AudioPlay(a) == [a EXCEPT !.state = "playing"]
\* clearBuffers drops what is queued; the position restarts at newPts, where
\* the audio queued next begins
AudioClearBuffers(a, newPts) == [a EXCEPT !.pts = newPts]
\* flushBuffers releases the buffers played since the last flush, and the
\* consumed position advances by what they held
AudioFlushBuffers(a, played) == [a EXCEPT !.pts = Min(MaxTime, a.pts + played)]
AudioPlayed(a) == IF a.state = "playing" THEN {0, 1} ELSE {0}
AudioGetCurrentPts(a) == a.pts

\* ---------------------------------------------------------------------
\* MovieGl::MovieGl (the decoder initialized, or the constructor throws)
Constructed ==
  /\ mWidth = 0 /\ mHeight = 0
  /\ mYPlane = Absent /\ mUPlane = Absent /\ mVPlane = Absent
  /\ mFbo = Absent /\ mTexture = Absent
  /\ playAudio \in BOOLEAN
  /\ \E hasAudio \in BOOLEAN :
       /\ dec = [init |-> TRUE, hasAudio |-> hasAudio, state |-> "stopped",
                 loop |-> FALSE, videoClock |-> 0]
       /\ mAudioRenderer = (hasAudio /\ playAudio)
  /\ aud = AudioNew /\ aQueued = 0
  /\ mUpdateTimer = TimerNew
  /\ pc = "idle"
  /\ currentPts = NoPts /\ hasVideo = FALSE /\ count = 0
  /\ currentVideoClock = 0 /\ videoFrame = NoFrame
  /\ audioFrame = NoAudioFrame
  /\ tick = NoTick
  /\ pulls = 0 /\ aPulls = 0 /\ lastPull = "none" /\ delivered = NoFrame
  /\ seekPending = FALSE /\ uninitCall = FALSE
  /\ prevPts = NoPts /\ disturbed = "none" /\ expect = NoPts /\ clean = TRUE
  /\ lastOp = "none" /\ haltedAt = NoPts /\ resumedAt = NoPts
  /\ mShader \in BOOLEAN

\* a player whose shader compiled
Init == Constructed /\ mShader

\* a player whose shader failed to compile: initializeShader() caught the
\* exception and left mShader null
InitShader == Constructed /\ ~mShader

\* ---------------------------------------------------------------------
\* the transport operations: what each does to the program state.  g is the
\* frame size the decoder reports, newPts where the audio restarts.
play(g) ==
  IF ~dec.init THEN UNCHANGED progVars
  ELSE /\ dec' = DecoderStart(dec)
       /\ mWidth' = g.w
       /\ mHeight' = g.h
       /\ mUpdateTimer' = TimerStart(mUpdateTimer, 0)
       /\ UNCHANGED <<mYPlane, mUPlane, mVPlane, mFbo, mTexture, mAudioRenderer,
                      playAudio, mShader, aud>>

\* mutant: stop() that also rewinds the timer
stop_RewindsTimer ==
  IF ~dec.init THEN UNCHANGED progVars
  ELSE /\ dec' = DecoderStop(dec)
       /\ aud' = (IF mAudioRenderer THEN AudioStop(aud) ELSE aud)
       /\ mUpdateTimer' = TimerNew
       /\ UNCHANGED <<gpuVars, mAudioRenderer, playAudio, mShader>>

stop ==
  IF ~dec.init THEN UNCHANGED progVars
  ELSE /\ dec' = DecoderStop(dec)
       /\ aud' = (IF mAudioRenderer THEN AudioStop(aud) ELSE aud)
       /\ mUpdateTimer' = TimerStop(mUpdateTimer)
       /\ UNCHANGED <<gpuVars, mAudioRenderer, playAudio, mShader>>

\* mutant: pause() without the isInitialized() guard
pause_Unguarded ==
  /\ dec' = DecoderPause(dec)
  /\ aud' = (IF mAudioRenderer THEN AudioPause(aud) ELSE aud)
  /\ mUpdateTimer' = TimerStop(mUpdateTimer)
  /\ UNCHANGED <<gpuVars, mAudioRenderer, playAudio, mShader>>

pause ==
  IF ~dec.init THEN UNCHANGED progVars
  ELSE /\ dec' = DecoderPause(dec)
       /\ aud' = (IF mAudioRenderer THEN AudioPause(aud) ELSE aud)
       /\ mUpdateTimer' = TimerStop(mUpdateTimer)
       /\ UNCHANGED <<gpuVars, mAudioRenderer, playAudio, mShader>>

\* mutant: resume() that restarts the timer at zero
resume_FromZero ==
  IF ~dec.init THEN UNCHANGED progVars
  ELSE /\ dec' = DecoderResume(dec)
       /\ aud' = (IF mAudioRenderer THEN AudioPlay(aud) ELSE aud)
       /\ mUpdateTimer' = TimerStart(mUpdateTimer, 0)
       /\ UNCHANGED <<gpuVars, mAudioRenderer, playAudio, mShader>>

resume ==
  IF ~dec.init THEN UNCHANGED progVars
  ELSE /\ dec' = DecoderResume(dec)
       /\ aud' = (IF mAudioRenderer THEN AudioPlay(aud) ELSE aud)
       /\ mUpdateTimer' = TimerStart(mUpdateTimer, dec'.videoClock)
       /\ UNCHANGED <<gpuVars, mAudioRenderer, playAudio, mShader>>

\* mutant: the seek that leaves the audio renderer in the state it was in
seekToTime_KeepsAudio(seconds, newPts) ==
  IF ~dec.init THEN UNCHANGED progVars
  ELSE /\ dec' = DecoderSeekToTime(dec, seconds)
       /\ mUpdateTimer' = TimerStart(mUpdateTimer, seconds)
       /\ aud' = (IF mAudioRenderer THEN AudioClearBuffers(aud, newPts) ELSE aud)
       /\ mTexture' = Absent
       /\ UNCHANGED <<mWidth, mHeight, mYPlane, mUPlane, mVPlane, mFbo, mAudioRenderer,
                      playAudio, mShader>>

\* mutant: the seek that forgets mTexture.reset()
seekToTime_KeepsTexture(seconds, newPts) ==
  IF ~dec.init THEN UNCHANGED progVars
  ELSE /\ dec' = DecoderSeekToTime(dec, seconds)
       /\ mUpdateTimer' = TimerStart(mUpdateTimer, seconds)
       /\ aud' = (IF mAudioRenderer THEN AudioPlay(AudioClearBuffers(aud, newPts)) ELSE aud)
       /\ UNCHANGED <<gpuVars, mAudioRenderer, playAudio, mShader>>

seekToTime(seconds, newPts) ==
  IF ~dec.init THEN UNCHANGED progVars
  ELSE /\ dec' = DecoderSeekToTime(dec, seconds)
       /\ mUpdateTimer' = TimerStart(mUpdateTimer, seconds)
       /\ aud' = (IF mAudioRenderer THEN AudioPlay(AudioClearBuffers(aud, newPts)) ELSE aud)
       /\ mTexture' = Absent
       /\ UNCHANGED <<mWidth, mHeight, mYPlane, mUPlane, mVPlane, mFbo, mAudioRenderer,
                      playAudio, mShader>>

setLoop(loop) ==
  IF ~dec.init THEN UNCHANGED progVars
  ELSE /\ dec' = DecoderLoop(dec, loop)
       /\ UNCHANGED <<gpuVars, mAudioRenderer, playAudio, mShader, mUpdateTimer, aud>>

\* ---------------------------------------------------------------------
\* update(): the helpers of the frame pump

\* the loop condition's comparison of the decoder's video clock with the
\* clock value; frameDuration * 0.5 is kept exact by doubling both sides
\* mutant: a bias of a whole frame duration while nothing is accepted
Admits_FullFrame(clock, pts, accepted) ==
  clock < pts + (IF accepted THEN 0 ELSE FrameDur)

Admits(clock, pts, accepted) ==
  2 * clock < 2 * pts + (IF accepted THEN 0 ELSE FrameDur)

\* count++ < 100, on the value count had before the increment
\* mutant: the cap compared with <= instead of <
UnderCap_OffByOne(n) == n <= MaxDrain

UnderCap(n) == n < MaxDrain

\* the while condition: "pull" when the body runs, else why the drain ends
LoopTest(clock, pts, accepted, n) ==
  IF ~Admits(clock, pts, accepted) THEN "cond"
  ELSE IF ~UnderCap(n) THEN "cap"
  ELSE "pull"

\* the pulled frame's clock is lower than the clock observed before it
\* mutant: the wrap-around test with the comparison reversed
Looped_Reversed(before, after) == before < after

Looped(before, after) == before > after

\* mutant: a resize test that also looks at the luma line stride
NeedsRealloc_Strides(f) ==
  \/ ~mYPlane.present \/ ~mUPlane.present \/ ~mVPlane.present \/ ~mFbo.present
  \/ f.h # mHeight \/ f.w # mWidth \/ f.y # mYPlane.w

NeedsRealloc(f) ==
  \/ ~mYPlane.present \/ ~mUPlane.present \/ ~mVPlane.present \/ ~mFbo.present
  \/ f.h # mHeight \/ f.w # mWidth

\* the sizes the four resources are created with for frame f
YPlaneFor(f) == Tex(f.y, f.h, 0)
\* mutant: a chroma plane as tall as the luma plane
UPlaneFor_FullHeight(f) == Tex(f.u, f.h, 0)

UPlaneFor(f) == Tex(f.u, f.h \div 2, 0)
VPlaneFor(f) == Tex(f.v, f.h \div 2, 0)
\* mutant: a reallocation that creates the planes and no target
FboFor_Missing(f) == Absent

FboFor(f) == Tex(f.w, f.h, 0)

\* glTexSubImage2D over the texture's full extent, from the frame's plane
Upload(t, f) == IF t.present THEN [t EXCEPT !.img = f.img] ELSE t

\* resize if needed, upload, render, mTexture = the target's colour texture
Present(f, rendered) ==
  LET re == NeedsRealloc(f)
      yPlane == IF re THEN YPlaneFor(f) ELSE mYPlane
      uPlane == IF re THEN UPlaneFor(f) ELSE mUPlane
      vPlane == IF re THEN VPlaneFor(f) ELSE mVPlane
      fbo == IF re THEN FboFor(f) ELSE mFbo
  IN /\ mWidth' = (IF re THEN f.w ELSE mWidth)
     /\ mHeight' = (IF re THEN f.h ELSE mHeight)
     /\ mYPlane' = Upload(yPlane, f)
     /\ mUPlane' = Upload(uPlane, f)
     /\ mVPlane' = Upload(vPlane, f)
     /\ mFbo' = (IF rendered THEN [fbo EXCEPT !.img = f.img] ELSE fbo)
     /\ mTexture' = (IF rendered THEN mFbo' ELSE mTexture)

\* what mShader->uniform() at line 143 can do: with a program it returns;
\* on a null mShader the call is undefined, the tick either dies there or
\* carries on to line 161
RenderOutcomes(accepted) == IF accepted /\ ~mShader THEN BOOLEAN ELSE {TRUE}

\* mutant: the end of update() that uploads and renders whether or not a
\* frame was accepted
Finish_AlwaysPresents(kind, accepted, f, pts) ==
  /\ Present(f, TRUE)
  /\ pc' = "idle"
  /\ currentPts' = NoPts /\ hasVideo' = FALSE /\ count' = 0
  /\ currentVideoClock' = 0 /\ videoFrame' = NoFrame
  /\ audioFrame' = NoAudioFrame
  /\ aQueued' = 0
  /\ tick' = [done |-> TRUE, accepted |-> accepted, exit |-> kind,
              realloc |-> accepted /\ NeedsRealloc(f), pts |-> pts]

\* the part of update() after the video drain, and its return.  kind: how the
\* drain ended; accepted, f: hasVideo and videoFrame then; pts: the clock
\* value of the tick.  A tick that dies in the render pass stops at "fault".
Finish(kind, accepted, f, pts) ==
  \E rendered \in RenderOutcomes(accepted) :
    /\ IF accepted THEN Present(f, rendered) ELSE UNCHANGED gpuVars
    /\ pc' = (IF rendered THEN "idle" ELSE "fault")
    /\ currentPts' = NoPts /\ hasVideo' = FALSE /\ count' = 0
    /\ currentVideoClock' = 0 /\ videoFrame' = NoFrame
    /\ audioFrame' = NoAudioFrame
    /\ aQueued' = 0
    /\ tick' = [done |-> rendered, accepted |-> accepted, exit |-> kind,
                realloc |-> accepted /\ NeedsRealloc(f), pts |-> pts]

\* mutant: the clock value taken from the audio position on every player
ClockValue_AudioOnly(a) == AudioGetCurrentPts(a)

\* the clock value of the tick, read when the audio drain is over
\* (a: the audio renderer after flushBuffers)
ClockValue(a) ==
  IF mAudioRenderer THEN AudioGetCurrentPts(a) ELSE TimerGetSeconds(mUpdateTimer)

\* the audio drain is over: read the clock, set up the video drain and test
\* its loop condition for the first time.  asked: the drain ends on a pull
\* that failed, and not on a renderer without buffer space ("audioFull") or
\* a stream without audio
AudioDone(a, asked) ==
  LET pts == ClockValue(a)
      test == LoopTest(dec.videoClock, pts, FALSE, 0)
  IN /\ aud' = a
     /\ pulls' = 0 /\ aPulls' = 0 /\ delivered' = NoFrame
     /\ lastPull' = (IF asked THEN "audioFail"
                     ELSE IF mAudioRenderer THEN "audioFull" ELSE lastPull)
     /\ UNCHANGED <<mAudioRenderer, mUpdateTimer, playAudio, mShader, dec>>
     /\ IF test = "pull"
        THEN /\ currentPts' = pts
             /\ hasVideo' = FALSE /\ count' = 1
             /\ videoFrame' = NoFrame
             /\ currentVideoClock' = dec.videoClock
             /\ audioFrame' = NoAudioFrame
             /\ pc' = "video"
             /\ aQueued' = 0
             /\ UNCHANGED <<gpuVars, tick>>
        ELSE Finish(test, FALSE, NoFrame, pts)

\* mutant: a pulled audio frame that is never handed to the renderer
AudioPulled_Dropped(queue, a) ==
  /\ audioFrame' = a
  /\ aQueued' = aQueued
  /\ aPulls' = Min(MaxBurst, aPulls + 1) /\ lastPull' = "audioOk"
  /\ UNCHANGED <<progVars, pc, currentPts, hasVideo, count, currentVideoClock,
                 videoFrame, tick, pulls, delivered>>

\* one more audio frame pulled into audioFrame: queued to the renderer
\* (queue = 1), or discarded (queue = 0); the two counts stop at MaxBurst
AudioPulled(queue, a) ==
  /\ audioFrame' = a
  /\ aQueued' = Min(MaxBurst, aQueued + queue)
  /\ aPulls' = Min(MaxBurst, aPulls + 1) /\ lastPull' = "audioOk"
  /\ UNCHANGED <<progVars, pc, currentPts, hasVideo, count, currentVideoClock,
                 videoFrame, tick, pulls, delivered>>

\* mutant: an audio drain that asks the decoder again after a failed pull
\* instead of leaving the loop
AudioDrain_Retry(space, ok, a, played) ==
  IF mAudioRenderer
  THEN IF space
       THEN IF ok THEN AudioPulled(1, a)
            ELSE /\ lastPull' = "audioFail"
                 /\ UNCHANGED <<progVars, tickVars, pulls, aPulls, delivered>>
       ELSE AudioDone(AudioFlushBuffers(aud, played), space)
  ELSE IF dec.hasAudio
       THEN IF ok THEN AudioPulled(0, a)
            ELSE /\ lastPull' = "audioFail"
                 /\ UNCHANGED <<progVars, tickVars, pulls, aPulls, delivered>>
       ELSE AudioDone(aud, FALSE)

\* one step of the audio drain.  space: the answer of hasBufferSpace; ok: the
\* answer of decodeAudioFrame; a: the frame it fills in; played: what
\* flushBuffers finds played
AudioDrain(space, ok, a, played) ==
  IF mAudioRenderer
  THEN IF space /\ ok
       THEN AudioPulled(1, a)
       ELSE AudioDone(AudioFlushBuffers(aud, played), space)
  ELSE IF dec.hasAudio
       THEN IF ok THEN AudioPulled(0, a) ELSE AudioDone(aud, TRUE)
       ELSE AudioDone(aud, FALSE)

\* mutant: a video drain that keeps the first frame it pulled and discards
\* the later ones
VideoDrain_KeepsFirst(ok, f, after) ==
  IF ~ok
  THEN /\ Finish("fail", hasVideo, videoFrame, currentPts)
       /\ lastPull' = "videoFail"
       /\ UNCHANGED <<mAudioRenderer, mUpdateTimer, playAudio, mShader, dec, aud, pulls, aPulls,
                      delivered>>
  ELSE LET kept == IF hasVideo THEN videoFrame ELSE f IN
       /\ dec' = [dec EXCEPT !.videoClock = after]
       /\ pulls' = pulls + 1 /\ lastPull' = "videoOk" /\ delivered' = f
       /\ UNCHANGED <<mAudioRenderer, playAudio, mShader, aud, aPulls>>
       /\ IF Looped(currentVideoClock, after)
          THEN /\ mUpdateTimer' = TimerStart(mUpdateTimer, after)
               /\ Finish("looped", TRUE, kept, currentPts)
          ELSE /\ mUpdateTimer' = mUpdateTimer
               /\ LET test == LoopTest(after, currentPts, TRUE, count)
                  IN IF test = "pull"
                     THEN /\ hasVideo' = TRUE
                          /\ videoFrame' = kept
                          /\ count' = count + 1
                          /\ currentVideoClock' = after
                          /\ audioFrame' = audioFrame
                          /\ UNCHANGED <<gpuVars, pc, currentPts, aQueued, tick>>
                     ELSE Finish(test, TRUE, kept, currentPts)

\* one step of the video drain: the body of the loop and the next test of
\* its condition.  ok: the answer of decodeVideoFrame; f: the frame it fills
\* in; after: the video clock the decoder reports afterwards
VideoDrain(ok, f, after) ==
  IF ~ok
  THEN /\ Finish("fail", hasVideo, videoFrame, currentPts)
       /\ lastPull' = "videoFail"
       /\ UNCHANGED <<mAudioRenderer, mUpdateTimer, playAudio, mShader, dec, aud, pulls, aPulls,
                      delivered>>
  ELSE /\ dec' = [dec EXCEPT !.videoClock = after]
       /\ pulls' = pulls + 1 /\ lastPull' = "videoOk" /\ delivered' = f
       /\ UNCHANGED <<mAudioRenderer, playAudio, mShader, aud, aPulls>>
       /\ IF Looped(currentVideoClock, after)
          THEN /\ mUpdateTimer' = TimerStart(mUpdateTimer, after)
               /\ Finish("looped", TRUE, f, currentPts)
          ELSE /\ mUpdateTimer' = mUpdateTimer
               /\ LET test == LoopTest(after, currentPts, TRUE, count)
                  IN IF test = "pull"
                     THEN /\ hasVideo' = TRUE
                          /\ videoFrame' = f
                          /\ count' = count + 1
                          /\ currentVideoClock' = after
                          /\ audioFrame' = audioFrame
                          /\ UNCHANGED <<gpuVars, pc, currentPts, aQueued, tick>>
                     ELSE Finish(test, TRUE, f, currentPts)

\* the clock value (currentPts) of the tick in progress or just returned
ClockRead == IF pc = "video" THEN currentPts ELSE tick.pts

\* ---------------------------------------------------------------------
\* checkNewFrame()

\* mutant: checkNewFrame() without the isInitialized() guard
checkNewFrame_Unguarded ==
  IF ~mAudioRenderer THEN FALSE
  ELSE dec.videoClock < AudioGetCurrentPts(aud)

\* checkNewFrame(): false without an audio renderer or with an uninitialized
\* decoder, else whether the video clock is behind the audio position
checkNewFrame ==
  IF ~mAudioRenderer THEN FALSE
  ELSE IF ~dec.init THEN FALSE
  ELSE dec.videoClock < AudioGetCurrentPts(aud)

\* ---------------------------------------------------------------------
\* the steps of update()

\* a seek stays pending until a tick ends with a frame accepted
SeekAfterStep ==
  seekPending' = (IF pc' # "idle" THEN seekPending
                  ELSE IF tick'.accepted THEN FALSE ELSE seekPending)

\* from the call to the start of the audio drain
UpdateEnter ==
  /\ pc = "idle"
  /\ uninitCall' = ~dec.init
  /\ pc' = (IF dec.init THEN "audio" ELSE "idle")
  /\ tick' = NoTick
  /\ pulls' = 0 /\ aPulls' = 0 /\ lastPull' = "none" /\ delivered' = NoFrame
  /\ seekPending' = seekPending
  /\ UNCHANGED <<progVars, localVars, aQueued>>

\* the answers to one round of the audio drain: at most MaxBurst frames in
\* a tick when bounded, any of `frames`
AudioPull(bounded, frames) ==
  /\ pc = "audio"
  /\ \E space \in BOOLEAN, ok \in BOOLEAN, a \in frames,
        played \in AudioPlayed(aud) :
       /\ (bounded /\ ok) => aPulls < MaxBurst
       /\ AudioDrain(space, ok, a, played)
  /\ SeekAfterStep
  /\ uninitCall' = uninitCall

AudioStep == AudioPull(TRUE, {1})

\* the decoder's answer to one pull: at most MaxBurst frames in a tick when
\* bounded, any of `frames`
VideoPull(bounded, frames) ==
  /\ pc = "video"
  /\ \E ok \in BOOLEAN :
       /\ (bounded /\ ok) => pulls < MaxBurst
       /\ IF ok THEN \E f \in frames, after \in Times : VideoDrain(TRUE, f, after)
          ELSE VideoDrain(FALSE, NoFrame, dec.videoClock)
  /\ SeekAfterStep
  /\ uninitCall' = uninitCall

VideoStep == VideoPull(TRUE, Frames)

\* ---------------------------------------------------------------------
\* the calls of the transport operations, between two ticks
Called ==
  /\ pc = "idle"
  /\ uninitCall' = ~dec.init
  /\ tick' = NoTick
  /\ pulls' = 0 /\ aPulls' = 0 /\ lastPull' = "none" /\ delivered' = NoFrame
  /\ UNCHANGED <<pc, localVars, aQueued>>

PlayWith(geometries) ==
  /\ Called
  /\ \E g \in geometries : play(g)
  /\ seekPending' = seekPending

Play == PlayWith(Geometries)

Stop ==
  /\ Called
  /\ stop
  /\ seekPending' = seekPending

Pause ==
  /\ Called
  /\ pause
  /\ seekPending' = seekPending

Resume ==
  /\ Called
  /\ resume
  /\ seekPending' = seekPending

SeekToTime ==
  /\ Called
  /\ \E seconds \in Times, newPts \in Times : seekToTime(seconds, newPts)
  /\ seekPending' = (dec.init \/ seekPending)

SetLoop ==
  /\ Called
  /\ \E loop \in BOOLEAN : setLoop(loop)
  /\ seekPending' = seekPending

\* ---------------------------------------------------------------------
\* the environment, between two ticks: the wall clock moves on by one unit
\* (seen only by a running timer), and the decoder stops answering
\* isInitialized() with true
Advance ==
  /\ pc = "idle"
  /\ mUpdateTimer.running /\ mUpdateTimer.secs < MaxTime
  /\ mUpdateTimer' = [mUpdateTimer EXCEPT !.secs = mUpdateTimer.secs + 1]
  /\ tick' = NoTick /\ uninitCall' = FALSE
  /\ pulls' = 0 /\ aPulls' = 0 /\ lastPull' = "none" /\ delivered' = NoFrame
  /\ UNCHANGED <<gpuVars, mAudioRenderer, playAudio, mShader, dec, aud, pc, localVars, aQueued,
                 seekPending>>

DecoderLost ==
  /\ pc = "idle"
  /\ dec.init
  /\ dec' = [dec EXCEPT !.init = FALSE]
  /\ tick' = NoTick /\ uninitCall' = FALSE
  /\ pulls' = 0 /\ aPulls' = 0 /\ lastPull' = "none" /\ delivered' = NoFrame
  /\ UNCHANGED <<gpuVars, mAudioRenderer, playAudio, mShader, mUpdateTimer, aud, pc, localVars,
                 aQueued, seekPending>>

\* ---------------------------------------------------------------------
\* Spec: every operation, a bounded decoder; the history of the clock is
\* not kept
NoClockHistory == UNCHANGED clockHist
NoTransportHistory == UNCHANGED transHist
NoHistory == NoClockHistory /\ NoTransportHistory

Next ==
  \/ UpdateEnter /\ NoHistory
  \/ AudioStep /\ NoHistory
  \/ VideoStep /\ NoHistory
  \/ Play /\ NoHistory
  \/ Stop /\ NoHistory
  \/ Pause /\ NoHistory
  \/ Resume /\ NoHistory
  \/ SeekToTime /\ NoHistory
  \/ SetLoop /\ NoHistory
  \/ Advance /\ NoHistory
  \/ DecoderLost /\ NoHistory

Spec == Init /\ [][Next]_vars

\* ---------------------------------------------------------------------
\* The drain against a decoder that never runs out of frames: a player
\* without audio, whose decoder may deliver a frame at every pull.

DrainFrames == { f \in Frames : f.w = 4 /\ f.img = 1 }

InitDrain == Init /\ ~playAudio /\ ~dec.hasAudio

VideoStepDrain == VideoPull(FALSE, DrainFrames)

NextDrain ==
  \/ UpdateEnter /\ NoHistory
  \/ AudioStep /\ NoHistory
  \/ VideoStepDrain /\ NoHistory
  \/ Play /\ NoHistory
  \/ SeekToTime /\ NoHistory
  \/ Advance /\ NoHistory

SpecDrain == InitDrain /\ [][NextDrain]_vars

\* ---------------------------------------------------------------------
\* The clock from tick to tick: the same player over one frame geometry,
\* with a record of the clock value of the last tick (prevPts), of what
\* was called since (disturbed), of where a re-based timer should be
\* (expect), and of whether the player has never been sought, paused or
\* wrapped around (clean).

ClockGeometries == { g \in Geometries : g.w = 4 }
ClockFrames == { f \in Frames : f.w = 4 /\ f.img = 1 }

Quiet(d) == d \in {"none", "compared"}
Restarted(d) == IF d = "excluded" THEN "excluded" ELSE "restart"

\* the audio phase ends: the tick has read its clock value
ReadObserved ==
  IF pc' = "audio" THEN UNCHANGED clockHist
  ELSE /\ prevPts' = ClockRead'
       /\ disturbed' = (IF prevPts # NoPts /\ Quiet(disturbed)
                        THEN "compared" ELSE "none")
       /\ UNCHANGED <<expect, clean>>

\* a pull that wrapped around re-bases the timer
LoopObserved ==
  IF pc' = "idle" /\ tick'.exit = "looped"
  THEN /\ disturbed' = "excluded"
       /\ expect' = dec'.videoClock
       /\ clean' = FALSE
       /\ prevPts' = prevPts
  ELSE UNCHANGED clockHist

RestartObserved ==
  /\ disturbed' = Restarted(disturbed)
  /\ expect' = (IF dec.init THEN NoPts ELSE expect)
  /\ UNCHANGED <<prevPts, clean>>

PauseObserved ==
  /\ disturbed' = "excluded"
  /\ clean' = FALSE
  /\ UNCHANGED <<prevPts, expect>>

SeekObserved ==
  /\ disturbed' = "excluded"
  /\ clean' = FALSE
  /\ expect' = (IF dec.init THEN NoPts ELSE expect)
  /\ prevPts' = prevPts

AdvanceObserved ==
  /\ expect' = (IF expect = NoPts THEN NoPts ELSE expect + 1)
  /\ UNCHANGED <<prevPts, disturbed, clean>>

VideoStepClock == VideoPull(TRUE, ClockFrames)
PlayClock == PlayWith(ClockGeometries)

NextClock ==
  \/ UpdateEnter /\ NoHistory
  \/ AudioStep /\ ReadObserved /\ NoTransportHistory
  \/ VideoStepClock /\ LoopObserved /\ NoTransportHistory
  \/ PlayClock /\ RestartObserved /\ NoTransportHistory
  \/ Stop /\ NoHistory
  \/ Pause /\ PauseObserved /\ NoTransportHistory
  \/ Resume /\ RestartObserved /\ NoTransportHistory
  \/ SeekToTime /\ SeekObserved /\ NoTransportHistory
  \/ SetLoop /\ NoHistory
  \/ Advance /\ AdvanceObserved /\ NoTransportHistory
  \/ DecoderLost /\ NoHistory

SpecClock == Init /\ [][NextClock]_vars

\* ---------------------------------------------------------------------
\* The transport from call to call: the same player over one frame
\* geometry, with a record of the operation of each step (lastOp), of the
\* timer value at a pause() that no resume(), play() or seekToTime() has
\* followed (haltedAt) and of the video clock at a resume() that no tick,
\* play() or seekToTime() has followed (resumedAt).

Did(op) == lastOp' = op

\* a step that is neither pause(), resume(), play() nor seekToTime()
OpObserved(op) ==
  /\ Did(op)
  /\ UNCHANGED <<haltedAt, resumedAt>>

\* the step of update() that may read the clock value
TickReadObserved ==
  /\ Did("update")
  /\ haltedAt' = haltedAt
  /\ resumedAt' = (IF pc' = "audio" THEN resumedAt ELSE NoPts)

PausedObserved ==
  /\ Did("pause")
  /\ haltedAt' = (IF dec.init THEN TimerGetSeconds(mUpdateTimer) ELSE haltedAt)
  /\ resumedAt' = resumedAt

ResumedObserved ==
  /\ Did("resume")
  /\ haltedAt' = (IF dec.init THEN NoPts ELSE haltedAt)
  /\ resumedAt' = (IF dec.init THEN dec.videoClock ELSE resumedAt)

\* play() and seekToTime() end a pause and re-base the timer themselves
RebasedObserved(op) ==
  /\ Did(op)
  /\ haltedAt' = (IF dec.init THEN NoPts ELSE haltedAt)
  /\ resumedAt' = (IF dec.init THEN NoPts ELSE resumedAt)

NextTransport ==
  \/ UpdateEnter /\ OpObserved("update") /\ NoClockHistory
  \/ AudioStep /\ TickReadObserved /\ NoClockHistory
  \/ VideoStepClock /\ OpObserved("update") /\ NoClockHistory
  \/ PlayClock /\ RebasedObserved("play") /\ NoClockHistory
  \/ Stop /\ OpObserved("stop") /\ NoClockHistory
  \/ Pause /\ PausedObserved /\ NoClockHistory
  \/ Resume /\ ResumedObserved /\ NoClockHistory
  \/ SeekToTime /\ RebasedObserved("seekToTime") /\ NoClockHistory
  \/ SetLoop /\ OpObserved("setLoop") /\ NoClockHistory
  \/ Advance /\ OpObserved("time") /\ NoClockHistory
  \/ DecoderLost /\ OpObserved("lost") /\ NoClockHistory

SpecTransport == Init /\ [][NextTransport]_vars

----------------------------------------------------------------------------
\* The player whose shader failed to compile, one frame geometry.

NextShader ==
  \/ UpdateEnter /\ NoHistory
  \/ AudioStep /\ NoHistory
  \/ VideoStepClock /\ NoHistory
  \/ PlayClock /\ NoHistory
  \/ Stop /\ NoHistory
  \/ Pause /\ NoHistory
  \/ Resume /\ NoHistory
  \/ SeekToTime /\ NoHistory
  \/ SetLoop /\ NoHistory
  \/ Advance /\ NoHistory
  \/ DecoderLost /\ NoHistory

SpecShader == InitShader /\ [][NextShader]_vars

----------------------------------------------------------------------------
\* The tick against a decoder that answers its pulls freely, audio and video:
\* neither drain is bounded by the model.  update() runs synchronously, so a
\* tick that has started takes its next step: weak fairness on the two drains.

AudioStepLive == AudioPull(FALSE, AudioFrames)

NextLive ==
  \/ UpdateEnter /\ NoHistory
  \/ AudioStepLive /\ NoHistory
  \/ VideoStepDrain /\ NoHistory
  \/ Play /\ NoHistory
  \/ SeekToTime /\ NoHistory
  \/ Advance /\ NoHistory

SpecLive ==
  /\ Init /\ [][NextLive]_vars
  /\ WF_vars(AudioStepLive /\ NoHistory)
  /\ WF_vars(VideoStepDrain /\ NoHistory)

\* ---------------------------------------------------------------------
\* C1: after seekToTime(t) returned on an initialized player, getTexture()
\* is absent, and it stays absent over every following update() and
\* transport call until an update() tick accepts a video frame.
C1_SeekClearsOutput == seekPending => ~mTexture.present

\* a tick that accepted nothing has returned after the seek, on a player
\* that had presented frames before
C1_Witness ==
  /\ seekPending /\ tick.done /\ ~tick.accepted
  /\ mFbo.present /\ ~mTexture.present

\* ---------------------------------------------------------------------
\* C2: one update() tick pulls at most 100 video frames, whatever the
\* decoder does, also when every pull succeeds and the video clock stays
\* below the admission threshold.
C2_BoundedDrain == pulls <= MaxDrain /\ count <= MaxDrain

\* a tick was ended by the cap after exactly 100 successful pulls
C2_Witness ==
  /\ tick.done /\ tick.exit = "cap" /\ tick.accepted
  /\ pulls = MaxDrain /\ lastPull = "videoOk"

\* ---------------------------------------------------------------------
\* C3: half-frame admission.  The timestamp of the frame a pull is about to
\* take is the decoder's video clock read by the loop test (line 78); c is
\* the tick's clock value and d the frame duration.  While nothing is
\* accepted a pull is attempted only when ts < c + d/2, afterwards only when
\* ts < c; a tick that ends on the loop test has ts at or above that
\* threshold, and a tick that accepted nothing although ts < c + d/2 ended
\* on a failed pull.  So no presented frame was pulled at ts >= c + d/2.
C3_HalfFrameAdmission ==
  /\ pc = "video" =>
       2 * dec.videoClock < 2 * currentPts + (IF hasVideo THEN 0 ELSE FrameDur)
  /\ (tick.done /\ tick.exit = "cond") =>
       2 * dec.videoClock >= 2 * tick.pts + (IF tick.accepted THEN 0 ELSE FrameDur)
  /\ (tick.done /\ ~tick.accepted /\ 2 * dec.videoClock < 2 * tick.pts + FrameDur) =>
       tick.exit = "fail"

\* a tick accepted a frame, skipped to a second one and stopped on the loop
\* test with the next timestamp exactly at the clock value
C3_Witness ==
  /\ tick.done /\ tick.accepted /\ tick.exit = "cond"
  /\ pulls = 2 /\ dec.videoClock = tick.pts

\* ---------------------------------------------------------------------
\* C4 as stated: a pull whose video clock is lower than the one observed
\* before it re-bases the timer to that clock, ends the drain and the tick
\* with that frame presented, and the clock value of the following ticks
\* continues from the re-based value, on every player.
C4_Original ==
  [][/\ (pc = "video" /\ pulls' = pulls + 1
           /\ dec'.videoClock < currentVideoClock) =>
          /\ pc' = "idle" /\ tick'.done /\ tick'.accepted
          /\ mUpdateTimer' = [running |-> TRUE, secs |-> dec'.videoClock]
          /\ mTexture'.present /\ mTexture'.img = delivered'.img
     /\ (pc = "audio" /\ pc' # "audio" /\ expect # NoPts) =>
          ClockRead' = expect]_vars

\* C4: loop re-base.  A pull whose video clock is lower than the one
\* observed before it re-bases the timer to exactly that clock, ends the
\* drain and the tick at once, and its frame is the one presented; on a
\* player without an audio renderer the clock value of the following ticks
\* continues from the re-based value (with an audio renderer the following
\* clock values are audio positions, which the re-base does not touch).
C4_LoopRebase ==
  [][/\ (pc = "video" /\ pulls' = pulls + 1
           /\ dec'.videoClock < currentVideoClock) =>
          /\ pc' = "idle" /\ tick'.done /\ tick'.accepted
          /\ tick'.exit = "looped"
          /\ mUpdateTimer' = [running |-> TRUE, secs |-> dec'.videoClock]
          /\ mTexture'.present /\ mTexture'.img = delivered'.img
          /\ mTexture'.w = delivered'.w /\ mTexture'.h = delivered'.h
     /\ (pc = "audio" /\ pc' # "audio" /\ expect # NoPts
           /\ ~mAudioRenderer) =>
          ClockRead' = expect]_vars

\* after a wrap-around re-based the timer to 0 and time advanced by one
\* unit, a following tick of a player without audio renderer read 1
C4_Witness ==
  /\ ~mAudioRenderer /\ expect = 1
  /\ tick.done /\ tick.exit # "looped" /\ tick.pts = 1
  /\ disturbed = "none" /\ dec.videoClock = 0

\* ---------------------------------------------------------------------
\* C5 as stated: on a player that was never sought, never wrapped around
\* and never paused, the clock value of a tick is not below the clock
\* value of the tick before it.
C5_Original ==
  [][(pc = "audio" /\ pc' # "audio" /\ prevPts # NoPts /\ clean) =>
       ClockRead' >= prevPts]_vars

\* C5: clock monotonicity.  With no seekToTime, no wrap-around, no pause
\* and also no play() and no resume() since the previous tick, the clock
\* value (currentPts) of a tick is not below that of the previous tick.
C5_ClockMonotonic ==
  [][(pc = "audio" /\ pc' # "audio" /\ prevPts # NoPts
        /\ Quiet(disturbed)) =>
       ClockRead' >= prevPts]_vars

\* two ticks in a row with nothing excluded called between them, the later
\* one reading MaxTime from the running timer
C5_Witness ==
  /\ disturbed = "compared" /\ prevPts = MaxTime
  /\ tick.done /\ tick.pts = MaxTime
  /\ ~mAudioRenderer /\ mUpdateTimer.running

\* ---------------------------------------------------------------------
\* C6: plane sizing.  A tick that (re)allocated for the frame it presents
\* leaves the luma plane yLine x h, the chroma planes uLine x (h div 2) and
\* vLine x (h div 2), the offscreen target w x h and (mWidth, mHeight) =
\* (w, h).
C6_PlaneSizing ==
  (tick.done /\ tick.realloc) =>
    /\ mYPlane.present /\ mYPlane.w = delivered.y /\ mYPlane.h = delivered.h
    /\ mUPlane.present /\ mUPlane.w = delivered.u
    /\ mUPlane.h = delivered.h \div 2
    /\ mVPlane.present /\ mVPlane.w = delivered.v
    /\ mVPlane.h = delivered.h \div 2
    /\ mFbo.present /\ mFbo.w = delivered.w /\ mFbo.h = delivered.h
    /\ mWidth = delivered.w /\ mHeight = delivered.h

\* a reallocation for a frame of odd height whose three strides differ
\* from each other and from the width
C6_Witness ==
  /\ tick.done /\ tick.realloc
  /\ delivered.h % 2 = 1
  /\ delivered.y # delivered.w /\ delivered.u # delivered.v

\* ---------------------------------------------------------------------
\* C7: no-audio fallback.  On a player built with playAudio = false over a
\* stream that has audio there is no audio renderer, nothing is ever queued
\* to one, the audio phase of a tick ends on a failed decodeAudioFrame, and
\* the clock value the video drain uses is mUpdateTimer.getSeconds().
C7_NoAudioFallback ==
  /\ []((~playAudio /\ dec.hasAudio) =>
          (~mAudioRenderer /\ aud = AudioNew /\ aQueued = 0))
  /\ [][(~playAudio /\ dec.hasAudio /\ pc = "audio" /\ pc' # "audio") =>
          /\ lastPull' = "audioFail"
          /\ ClockRead' = TimerGetSeconds(mUpdateTimer)]_vars

\* audio frames were pulled and dropped while the timer had advanced
C7_Witness ==
  /\ ~playAudio /\ dec.hasAudio
  /\ pc = "audio" /\ aPulls = MaxBurst /\ aQueued = 0
  /\ TimerGetSeconds(mUpdateTimer) > 0

\* ---------------------------------------------------------------------
\* C8: with the decoder not initialized, update(), play(), stop(), pause(),
\* resume(), seekToTime() and setLoop() return at once: no command reaches
\* the decoder or the audio renderer, and the timer, mWidth, mHeight, the
\* planes, the offscreen target and mTexture are unchanged.
C8_UninitializedNoOp ==
  [][(~dec.init /\ uninitCall') =>
       /\ UNCHANGED <<gpuVars, mAudioRenderer, mUpdateTimer, dec, aud>>
       /\ pc' = "idle" /\ ~tick'.done]_vars

\* an operation was called on an uninitialized decoder while a texture was
\* shown and the timer ran
C8_Witness ==
  /\ uninitCall /\ ~dec.init
  /\ mTexture.present /\ mUpdateTimer.running /\ mAudioRenderer

\* ---------------------------------------------------------------------
\* C9 as stated: checkNewFrame() is true exactly when the video clock is
\* strictly behind the audio position, in every reachable state.
C9_Original == checkNewFrame <=> (dec.videoClock < AudioGetCurrentPts(aud))

\* C9: checkNewFrame() is true exactly when the player has an audio
\* renderer, the decoder is initialized and the video clock is strictly
\* behind the audio position; without an audio renderer, or with an
\* uninitialized decoder, it is false whatever the two positions are.
C9_CheckNewFrame ==
  /\ checkNewFrame <=>
       (mAudioRenderer /\ dec.init /\ dec.videoClock < AudioGetCurrentPts(aud))
  /\ (~mAudioRenderer \/ ~dec.init) => ~checkNewFrame

\* the video clock is behind the audio position of a player with an audio
\* renderer whose decoder is no longer initialized
C9_Witness ==
  /\ mAudioRenderer /\ ~dec.init
  /\ dec.videoClock < AudioGetCurrentPts(aud)
  /\ ~checkNewFrame

\* ---------------------------------------------------------------------
\* C10: a tick that accepts no video frame leaves mTexture, the three
\* planes, the offscreen target, mWidth and mHeight as they were: no step
\* of update() touches them unless it ends a tick that accepted a frame.
C10_NoFrameNoChange ==
  [][((pc # "idle" \/ pc' # "idle") /\ ~tick'.accepted) =>
       UNCHANGED gpuVars]_vars

\* a tick whose first pull failed has returned while a texture was shown
C10_Witness ==
  /\ tick.done /\ ~tick.accepted /\ tick.exit = "fail"
  /\ mTexture.present /\ lastPull = "videoFail"

\* ---------------------------------------------------------------------
\* C11 as stated: seekToTime(t) leaves the transport state as it was; called
\* while the decoder is paused or stopped it leaves the timer halted and
\* the audio renderer in the state it was in.
C11_Original ==
  [][(Did("seekToTime") /\ dec.init) =>
       /\ dec'.state = dec.state
       /\ (dec.state # "playing" =>
             /\ ~mUpdateTimer'.running
             /\ (mAudioRenderer => aud'.state = aud.state))]_vars

\* C11: seekToTime(t) sends the decoder no start, stop, pause or resume, so
\* the decoder's transport state is as it was; but in every state it
\* restarts the timer at t, running, sets the audio renderer playing and
\* resets mTexture, also when called while paused or stopped.
C11_SeekTransport ==
  [][(Did("seekToTime") /\ dec.init) =>
       /\ dec'.state = dec.state
       /\ mUpdateTimer'.running
       /\ TimerGetSeconds(mUpdateTimer') = dec'.videoClock
       /\ (mAudioRenderer => aud'.state = "playing")
       /\ ~mTexture'.present]_vars

\* seekToTime() was called on a paused player with an audio renderer: the
\* timer runs and the audio plays
C11_Witness ==
  /\ lastOp = "seekToTime" /\ dec.init /\ dec.state = "paused"
  /\ mUpdateTimer.running /\ mAudioRenderer /\ aud.state = "playing"

\* ---------------------------------------------------------------------
\* C12: after pause() and until the next resume(), play() or seekToTime()
\* the timer is halted at the value it had at the pause: no tick restarts
\* it, and on a player without audio renderer every tick of the interval
\* reads that value as its clock value.
C12_PauseHaltsClock ==
  /\ haltedAt # NoPts =>
       (~mUpdateTimer.running /\ TimerGetSeconds(mUpdateTimer) = haltedAt)
  /\ (haltedAt # NoPts /\ lastOp = "update" /\ ~mAudioRenderer
        /\ (pc = "video" \/ tick.done)) =>
       ClockRead = haltedAt

\* ---------------------------------------------------------------------
\* C13: resume() restarts the timer at the decoder's video clock of that
\* moment, and on a player without audio renderer the first tick after it
\* reads a clock value at or above that video clock.
C13_ResumeRebase ==
  [][/\ (Did("resume") /\ dec.init) =>
          mUpdateTimer' = [running |-> TRUE, secs |-> dec.videoClock]
     /\ (pc = "audio" /\ pc' # "audio" /\ resumedAt # NoPts
           /\ ~mAudioRenderer) =>
          ClockRead' >= resumedAt]_vars

\* the first tick after a resume() at video clock 1 is about to read the
\* timer, which has advanced to 2 since
C13_Witness ==
  /\ pc = "audio" /\ resumedAt = 1 /\ ~mAudioRenderer
  /\ mUpdateTimer.running /\ TimerGetSeconds(mUpdateTimer) = 2

C15_ShaderFailureHarmless ==
  ~mShader => (pc # "fault" /\ ~mTexture.present)

\* C16 as stated: whatever the decoder and the audio path answer, every
\* update() tick that has started returns.
C16_Original ==
  (pc # "idle") ~> (pc = "idle")

\* C16: every update() tick returns, unless from some point on every round of
\* its audio drain pulls one more frame (the decoder never fails a pull and,
\* with an audio path, the path never runs out of buffer space): the audio
\* drain has no cap of its own, the video drain ends whatever the decoder
\* answers.
C16_TickEnds ==
  (pc # "idle") ~> (pc = "idle" \/ [](pc = "audio" /\ lastPull = "audioOk"))

\* a tick on a player whose decoder has audio has returned at the cap of the
\* video drain, every pull having succeeded
C16_Witness ==
  /\ pc = "idle" /\ tick.done /\ tick.exit = "cap"
  /\ dec.hasAudio /\ lastPull = "videoOk"

\* C17: newest frame only.  The video drain of a tick writes nothing until it
\* ends; a failed pull ends it at once; and when it ends after n >= 1
\* successful pulls, the frame of the last pull, and no earlier one, is in
\* the three planes, in the target and in mTexture.
C17_NewestFrameOnly ==
  [][pc = "video" =>
       /\ (pc' = "video" => UNCHANGED gpuVars)
       /\ (lastPull' = "videoFail" => (pc' = "idle" /\ pulls' = pulls))
       /\ ((pc' = "idle" /\ pulls' >= 1) =>
             /\ tick'.accepted
             /\ mYPlane'.img = delivered'.img
             /\ mUPlane'.img = delivered'.img
             /\ mVPlane'.img = delivered'.img
             /\ mFbo'.img = delivered'.img
             /\ mTexture' = mFbo' /\ mTexture'.present)]_vars

\* a tick has returned after two successful pulls, and the output shows the
\* frame of the second
C17_Witness ==
  /\ pc = "idle" /\ tick.done /\ tick.accepted /\ pulls = 2
  /\ mTexture.present /\ mTexture.img = delivered.img

\* C18: audio drain with an active audio path.  Every round of the drain
\* either pulls a frame and queues it, or ends the drain: on a path without
\* buffer space no frame is pulled, and a failed pull is the last one.  The
\* path is flushed when the drain ends and not before, the clock value of
\* the tick is the audio position after that flush, and no video frame is
\* pulled before it.
C18_AudioDrain ==
  [][(pc = "audio" /\ mAudioRenderer) =>
       /\ pulls = 0 /\ pulls' = 0
       /\ lastPull' \in {"audioOk", "audioFail", "audioFull"}
       /\ (lastPull' = "audioOk" =>
             /\ pc' = "audio" /\ aud' = aud
             /\ aPulls' = aPulls + 1 /\ aQueued' = aQueued + 1)
       /\ (lastPull' # "audioOk" =>
             /\ pc' # "audio"
             /\ \E played \in AudioPlayed(aud) :
                  aud' = AudioFlushBuffers(aud, played)
             /\ ClockRead' = AudioGetCurrentPts(aud'))]_vars

\* the audio drain of a player with an audio path has ended on a failed pull
\* and the video drain runs against the audio position, which has advanced
C18_Witness ==
  /\ pc = "video" /\ mAudioRenderer /\ lastPull = "audioFail"
  /\ currentPts = AudioGetCurrentPts(aud) /\ currentPts > 0

\* C19: all-or-none resources.  On a player whose shader compiled, the three
\* planes and the target are all absent or all present in every reachable
\* state, and mTexture is present only when the four are.
C19_AllOrNone ==
  mShader =>
    /\ \/ mYPlane.present /\ mUPlane.present /\ mVPlane.present /\ mFbo.present
       \/ ~mYPlane.present /\ ~mUPlane.present /\ ~mVPlane.present
            /\ ~mFbo.present
    /\ mTexture.present => mFbo.present

\* the four resources outlive a seek that has cleared mTexture
C19_Witness ==
  /\ mShader /\ seekPending /\ ~mTexture.present
  /\ mYPlane.present /\ mUPlane.present /\ mVPlane.present /\ mFbo.present

\* C20: geometry consistency.  In every reachable state in which the target
\* exists, mWidth and mHeight are the size the target and the planes were
\* created with, also after play() called again once frames were presented.
C20_GeometryConsistent ==
  mFbo.present =>
    /\ mWidth = mFbo.w /\ mHeight = mFbo.h
    /\ mYPlane.h = mHeight
    /\ mUPlane.h = mHeight \div 2 /\ mVPlane.h = mHeight \div 2

====
